---- MODULE Spec2Model ----
(***************************************************************************)
(* A model of flops(model), the FLOPs estimator of the notebook            *)
(* "Flops Intro.ipynb" (src/README.md, lines 257-283).                     *)
(*                                                                         *)
(* flops walks model.layers with enumerate, prints a few lines per layer   *)
(* and accumulates total_flops.  One loop iteration is one action; the     *)
(* final print and the return are the last action.  The printed text is    *)
(* the variable out, a sequence of lines, each a tuple:                    *)
(*   <<"Layer", i, "Flatten">>      Layer {i}: Flatten - no FLOPs counted. *)
(*   <<"Layer", i, "Dense">>        Layer {i}: Dense                       *)
(*   <<"units", a, b, f>>           input_units: a, output_units: b, flops: f *)
(*   <<"ReLU", n>>                  +ReLU activation FLOPs: n             *)
(*   <<"Softmax", n>>               +Softmax activation FLOPs (approx): n *)
(*   <<"Total", t>>                 Total estimated FLOPs: t              *)
(***************************************************************************)
EXTENDS Integers, Sequences, FiniteSets, TLC

VARIABLES model, i, total_flops, out, pc, ret, calls, th, stdout

\* One call of flops: its argument, its locals, the text it has printed
\* and the value it has returned.  These are all that Spec moves.
call == <<model, i, total_flops, out, pc, ret>>

\* calls is the record of the calls that have returned, one after another
\* (SpecCalls); th holds the locals of two calls that run side by side and
\* stdout the one stream both print to (SpecThreads).
vars == <<model, i, total_flops, out, pc, ret, calls, th, stdout>>

\* Longest layer sequence that is enumerated exhaustively.
MaxLen == 2

\* Largest input size / output size that is enumerated exhaustively.
MaxUnits == 1

---------------------------------------------------------------------------
(* The inputs: layer objects and layer sequences.                          *)

\* layer.input_shape[-1] and layer.units.  A Keras layer may have size 0
\* (Dense(0) and an empty last axis are accepted); negative sizes are
\* refused by Keras, so no layer object carries one.
Sizes == 0..MaxUnits

\* layer.activation: linear is what Keras stores for activation=None,
\* sigmoid stands for any activation other than linear, relu and softmax.
Activations == {"linear", "relu", "softmax", "sigmoid"}

Layer(kind, input_units, units, activation) ==
    [kind |-> kind, input_units |-> input_units, units |-> units,
     activation |-> activation]

\* A Flatten layer has a shape but neither units nor an activation of its own.
FlattenLayers == {Layer("Flatten", s, s, "linear") : s \in Sizes}

DenseLayers ==
    {Layer("Dense", a, b, act) : a \in Sizes, b \in Sizes, act \in Activations}

\* A layer class that flops has no branch for.
OtherLayers == {Layer("Conv2D", MaxUnits, MaxUnits, "relu")}

Layers == FlattenLayers \cup DenseLayers \cup OtherLayers

RECURSIVE SeqsUpTo(_, _)
SeqsUpTo(S, n) ==
    IF n = 0 THEN {<<>>}
    ELSE LET shorter == SeqsUpTo(S, n - 1)
         IN  shorter \cup {Append(s, x) : s \in {t \in shorter : Len(t) = n - 1}, x \in S}

\* The first model of the notebook.
ModelA ==
    << Layer("Flatten", 28, 28, "linear"),
       Layer("Dense", 784, 100, "relu"),
       Layer("Dense", 100, 100, "relu"),
       Layer("Dense", 100, 10, "softmax") >>

\* The "Modified Model" of the notebook.
ModelB ==
    << Layer("Flatten", 28, 28, "linear"),
       Layer("Dense", 784, 50, "relu"),
       Layer("Dense", 50, 50, "relu"),
       Layer("Dense", 50, 10, "softmax") >>

\* A model with a layer class that flops has no branch for, between two
\* layers it does handle (the notebook's closing note names Conv2D).
ModelC ==
    << Layer("Flatten", 28, 28, "linear"),
       Layer("Dense", 784, 50, "sigmoid"),
       Layer("Conv2D", 50, 8, "relu"),
       Layer("Dense", 8, 10, "softmax") >>

Models == SeqsUpTo(Layers, MaxLen) \cup {ModelA, ModelB, ModelC}

---------------------------------------------------------------------------
(* The branches of the loop body.                                          *)

\* Variants of the definitions below, each changed the way a slip in the
\* code would change it; the claims are checked to tell them apart.

\* the Flatten test made against a class no layer has
IsFlattenNever(layer) == FALSE

\* the Flatten test widened to everything that is not Dense
IsFlattenNotDense(layer) == layer.kind # "Dense"

\* a plain else in place of the elif on Dense
IsDenseElse(layer) == layer.kind # "Flatten"

\* the factor 2 of the multiply-accumulate pair forgotten
MacFlopsNoFactor(input_units, output_units) == input_units * output_units

\* a sum where the product of the two sizes is meant
MacFlopsSum(input_units, output_units) == 2 * (input_units + output_units)

\* the ReLU increment copied into the Softmax branch
ActivationFlopsCopied(activation, output_units) ==
    IF activation = "relu" THEN output_units
    ELSE IF activation = "softmax" THEN output_units
    ELSE 0

\* a plain else in place of the elif on softmax
ActivationLinesElse(activation, output_units) ==
    IF activation = "relu" THEN << <<"ReLU", output_units>> >>
    ELSE << <<"Softmax", 5 * output_units>> >>

\* the activation cost printed but never added to flops
DenseFlopsNoActivation(layer) == 2 * layer.input_units * layer.units

\* layers numbered from 1 (enumerate(model.layers, 1))
DenseLinesFromOne(idx, layer) ==
    << <<"Layer", idx + 1, "Dense">>,
       <<"units", layer.input_units, layer.units,
         2 * layer.input_units * layer.units>> >>
    \o (IF layer.activation = "relu" THEN << <<"ReLU", layer.units>> >>
        ELSE IF layer.activation = "softmax"
             THEN << <<"Softmax", 5 * layer.units>> >>
        ELSE <<>>)

\* the Flatten branch continuing without its print
FlattenLinesSilent(idx) == <<>>

\* isinstance(layer, tf.keras.layers.Flatten)
IsFlatten(layer) == layer.kind = "Flatten"

\* isinstance(layer, tf.keras.layers.Dense), reached when not Flatten
IsDense(layer) == layer.kind = "Dense"

\* flops = 2 * input_units * output_units
MacFlops(input_units, output_units) == 2 * input_units * output_units

\* what the if / elif on layer.activation adds to flops
ActivationFlops(activation, output_units) ==
    IF activation = "relu" THEN output_units
    ELSE IF activation = "softmax" THEN 5 * output_units
    ELSE 0

\* the lines the if / elif on layer.activation prints
ActivationLines(activation, output_units) ==
    IF activation = "relu" THEN << <<"ReLU", output_units>> >>
    ELSE IF activation = "softmax" THEN << <<"Softmax", 5 * output_units>> >>
    ELSE <<>>

\* the value of flops when it is added to total_flops
DenseFlops(layer) ==
    MacFlops(layer.input_units, layer.units)
        + ActivationFlops(layer.activation, layer.units)

\* everything the Dense branch prints for layer number idx
DenseLines(idx, layer) ==
    << <<"Layer", idx, "Dense">>,
       <<"units", layer.input_units, layer.units,
         MacFlops(layer.input_units, layer.units)>> >>
    \o ActivationLines(layer.activation, layer.units)

\* the line the Flatten branch prints for layer number idx
FlattenLines(idx) == << <<"Layer", idx, "Flatten">> >>

\* what one loop iteration adds to total_flops
LayerFlops(layer) ==
    IF IsFlatten(layer) THEN 0
    ELSE IF IsDense(layer) THEN DenseFlops(layer)
    ELSE 0

\* flops(model) as a function of the layer sequence: the loop as a fold
RECURSIVE FlopsTotal(_)
FlopsTotal(layers) ==
    IF layers = <<>> THEN 0
    ELSE FlopsTotal(SubSeq(layers, 1, Len(layers) - 1))
            + LayerFlops(layers[Len(layers)])

---------------------------------------------------------------------------
(* The state machine.  i counts the layers already enumerated, so the      *)
(* layer in hand is model[i + 1] and it is printed as "Layer i".           *)

Init ==
    /\ model \in Models
    /\ i = 0
    /\ total_flops = 0
    /\ out = <<>>
    /\ pc = "loop"
    /\ ret = <<>>
    /\ calls = <<>>
    /\ th = <<>>
    /\ stdout = <<>>

\* if isinstance(layer, Flatten): print(...); continue
StepFlatten ==
    /\ pc = "loop"
    /\ i < Len(model)
    /\ IsFlatten(model[i + 1])
    /\ out' = out \o FlattenLines(i)
    /\ i' = i + 1
    /\ UNCHANGED <<model, total_flops, pc, ret, calls, th, stdout>>

\* elif isinstance(layer, Dense): ...; total_flops += flops
StepDense ==
    /\ pc = "loop"
    /\ i < Len(model)
    /\ ~IsFlatten(model[i + 1])
    /\ IsDense(model[i + 1])
    /\ out' = out \o DenseLines(i, model[i + 1])
    /\ total_flops' = total_flops + DenseFlops(model[i + 1])
    /\ i' = i + 1
    /\ UNCHANGED <<model, pc, ret, calls, th, stdout>>

\* neither test holds: the loop body has no else, the next layer is taken
StepOther ==
    /\ pc = "loop"
    /\ i < Len(model)
    /\ ~IsFlatten(model[i + 1])
    /\ ~IsDense(model[i + 1])
    /\ i' = i + 1
    /\ UNCHANGED <<model, total_flops, out, pc, ret, calls, th, stdout>>

\* return flops in place of return total_flops: the local flops holds the
\* count of the last Dense layer, and is unbound (the call raises and
\* returns nothing) when no Dense layer was met
ReturnLastFlops ==
    /\ pc = "loop"
    /\ i = Len(model)
    /\ out' = Append(out, <<"Total", total_flops>>)
    /\ ret' = LET D == {k \in 1..i : IsDense(model[k])}
              IN  IF D = {} THEN <<>>
                  ELSE <<DenseFlops(model[CHOOSE k \in D : \A j \in D : j <= k])>>
    /\ pc' = "done"
    /\ calls' = Append(calls, [model |-> model, out |-> out', ret |-> ret'])
    /\ UNCHANGED <<model, i, total_flops, th, stdout>>

\* the loop is exhausted: print the total and return it
Return ==
    /\ pc = "loop"
    /\ i = Len(model)
    /\ out' = Append(out, <<"Total", total_flops>>)
    /\ ret' = <<total_flops>>
    /\ pc' = "done"
    /\ calls' = Append(calls, [model |-> model, out |-> out', ret |-> ret'])
    /\ UNCHANGED <<model, i, total_flops, th, stdout>>

Next ==
    \/ StepFlatten
    \/ StepDense
    \/ StepOther
    \/ Return

Spec == Init /\ [][Next]_vars

---------------------------------------------------------------------------
(* flops called again and again, each call after the one before it has     *)
(* returned, as the notebook calls it on its first and on its modified     *)
(* model.  Each call has fresh locals; out is the text of the call in hand. *)

\* Most calls that are made one after another.
MaxCalls == 3

\* The models flops is called on, time after time.
CallModels == {<<>>, ModelA, ModelB, ModelC}

\* total_flops kept from the call before (a module-level total_flops)
EntryTotalKept(left) == left

\* total_flops = 0, the first statement of every call, whatever the call
\* before left in its own total_flops
EntryTotal(left) == 0

InitCalls ==
    /\ model \in CallModels
    /\ i = 0
    /\ total_flops = 0
    /\ out = <<>>
    /\ pc = "loop"
    /\ ret = <<>>
    /\ calls = <<>>
    /\ th = <<>>
    /\ stdout = <<>>

\* flops(model) once more: the argument is bound, total_flops = 0, the
\* loop starts at the first layer
Call ==
    /\ pc = "done"
    /\ Len(calls) < MaxCalls
    /\ model' \in CallModels
    /\ i' = 0
    /\ total_flops' = EntryTotal(total_flops)
    /\ out' = <<>>
    /\ ret' = <<>>
    /\ pc' = "loop"
    /\ UNCHANGED <<calls, th, stdout>>

NextCalls ==
    \/ StepFlatten
    \/ StepDense
    \/ StepOther
    \/ Return
    \/ Call

SpecCalls == InitCalls /\ [][NextCalls]_vars

---------------------------------------------------------------------------
(* Two calls of flops on different models, running side by side, one loop  *)
(* iteration at a time in any order.  Each call has its own argument and   *)
(* locals, th[t]; print writes to the one standard output, stdout.         *)

Threads == {1, 2}

\* what one loop iteration prints for layer number idx
LayerLines(idx, layer) ==
    IF IsFlatten(layer) THEN FlattenLines(idx)
    ELSE IF IsDense(layer) THEN DenseLines(idx, layer)
    ELSE <<>>

\* what the loop prints over the layers it has enumerated: the loop as a fold
RECURSIVE LoopLines(_)
LoopLines(layers) ==
    IF layers = <<>> THEN <<>>
    ELSE LoopLines(SubSeq(layers, 1, Len(layers) - 1))
            \o LayerLines(Len(layers) - 1, layers[Len(layers)])

\* everything flops(model) prints when it runs alone
FlopsTrace(layers) ==
    Append(LoopLines(layers), <<"Total", FlopsTotal(layers)>>)

\* one frame for both calls (argument and locals kept at module level)
LocalsShared(t) == th[1]

\* the frame of call t: its argument and its locals
Locals(t) == th[t]

Frame(m) == [model |-> m, i |-> 0, total_flops |-> 0, pc |-> "loop", ret |-> <<>>]

InitThreads ==
    /\ \E m1 \in CallModels : \E m2 \in CallModels \ {m1} :
           th = [t \in Threads |-> IF t = 1 THEN Frame(m1) ELSE Frame(m2)]
    /\ stdout = <<>>
    /\ model = <<>>
    /\ i = 0
    /\ total_flops = 0
    /\ out = <<>>
    /\ pc = "idle"
    /\ ret = <<>>
    /\ calls = <<>>

\* if isinstance(layer, Flatten): print(...); continue
ThreadFlatten(t) ==
    LET f == Locals(t)
    IN  /\ f.pc = "loop"
        /\ f.i < Len(f.model)
        /\ IsFlatten(f.model[f.i + 1])
        /\ stdout' = stdout \o FlattenLines(f.i)
        /\ th' = [th EXCEPT ![t] = [f EXCEPT !.i = f.i + 1]]
        /\ UNCHANGED <<call, calls>>

\* elif isinstance(layer, Dense): ...; total_flops += flops
ThreadDense(t) ==
    LET f == Locals(t)
    IN  /\ f.pc = "loop"
        /\ f.i < Len(f.model)
        /\ ~IsFlatten(f.model[f.i + 1])
        /\ IsDense(f.model[f.i + 1])
        /\ stdout' = stdout \o DenseLines(f.i, f.model[f.i + 1])
        /\ th' = [th EXCEPT ![t] =
                     [f EXCEPT !.i = f.i + 1,
                               !.total_flops =
                                   f.total_flops + DenseFlops(f.model[f.i + 1])]]
        /\ UNCHANGED <<call, calls>>

\* neither test holds: the next layer is taken
ThreadOther(t) ==
    LET f == Locals(t)
    IN  /\ f.pc = "loop"
        /\ f.i < Len(f.model)
        /\ ~IsFlatten(f.model[f.i + 1])
        /\ ~IsDense(f.model[f.i + 1])
        /\ th' = [th EXCEPT ![t] = [f EXCEPT !.i = f.i + 1]]
        /\ UNCHANGED <<stdout, call, calls>>

\* the loop is exhausted: print the total and return it
ThreadReturn(t) ==
    LET f == Locals(t)
    IN  /\ f.pc = "loop"
        /\ f.i = Len(f.model)
        /\ stdout' = Append(stdout, <<"Total", f.total_flops>>)
        /\ th' = [th EXCEPT ![t] =
                     [f EXCEPT !.ret = <<f.total_flops>>, !.pc = "done"]]
        /\ UNCHANGED <<call, calls>>

NextThreads ==
    \E t \in Threads :
        \/ ThreadFlatten(t)
        \/ ThreadDense(t)
        \/ ThreadOther(t)
        \/ ThreadReturn(t)

SpecThreads == InitThreads /\ [][NextThreads]_vars

---------------------------------------------------------------------------
(* Reading the printed text back as per-layer reports.  A "Layer" line     *)
(* opens the report of one layer; the lines that follow it up to the next  *)
(* "Layer" line belong to that report.  A report's flops is the sum of the *)
(* counts its lines show, and its notes are the tags of those lines.       *)

RECURSIVE Reports(_)
Reports(lines) ==
    IF lines = <<>> THEN <<>>
    ELSE LET n    == Len(lines)
             line == lines[n]
             rest == Reports(SubSeq(lines, 1, n - 1))
             last == rest[Len(rest)]
             Add(f) == [rest EXCEPT ![Len(rest)] =
                           [last EXCEPT !.flops = last.flops + f,
                                        !.notes = Append(last.notes, line[1])]]
         IN  IF line[1] = "Layer"
                THEN Append(rest, [index |-> line[2], kind |-> line[3],
                                   flops |-> 0, notes |-> <<>>])
             ELSE IF rest = <<>> \/ line[1] = "Total" THEN rest
             ELSE IF line[1] = "units" THEN Add(line[4])
             ELSE Add(line[2])

RECURSIVE SumFlops(_)
SumFlops(reports) ==
    IF reports = <<>> THEN 0
    ELSE SumFlops(SubSeq(reports, 1, Len(reports) - 1))
            + reports[Len(reports)].flops

Costs(reports) == [k \in 1..Len(reports) |-> reports[k].flops]

\* The report that carries index idx, as a set (empty when there is none).
ReportsOf(idx) ==
    {r \in {Reports(out)[k] : k \in 1..Len(Reports(out))} : r.index = idx}

\* The layers already enumerated.
Seen == 1..i

IsOther(layer) == layer.kind \notin {"Flatten", "Dense"}

\* The cost of a layer by the stated rules: 2ab for Dense, plus b for ReLU
\* or 5b for Softmax; nothing for any other layer.
RuleCost(layer) ==
    IF layer.kind = "Dense"
    THEN 2 * layer.input_units * layer.units
            + (CASE layer.activation = "relu" -> layer.units
                 [] layer.activation = "softmax" -> 5 * layer.units
                 [] OTHER -> 0)
    ELSE 0

RemoveAt(s, p) == SubSeq(s, 1, p - 1) \o SubSeq(s, p + 1, Len(s))

\* The step that enumerates a layer satisfying P.
Enumerates(P(_)) == pc = "loop" /\ i < Len(model) /\ i' = i + 1 /\ P(model[i + 1])

---------------------------------------------------------------------------
\* C1: for a Dense layer with input size a >= 1 and output size b >= 1 the
\* amount added to the total is 2ab when the activation is None, 2ab + b
\* when it is ReLU and 2ab + 5b when it is Softmax.
C1_ValidDense(layer) ==
    /\ layer.kind = "Dense"
    /\ layer.input_units >= 1
    /\ layer.units >= 1
    /\ layer.activation \in {"linear", "relu", "softmax"}

C1_DenseCost ==
    [][Enumerates(C1_ValidDense) =>
         LET a == model[i + 1].input_units
             b == model[i + 1].units
             act == model[i + 1].activation
         IN  total_flops' - total_flops =
                 IF act = "linear" THEN 2 * a * b
                 ELSE IF act = "relu" THEN 2 * a * b + b
                 ELSE 2 * a * b + 5 * b]_vars

C1_Witness ==
    /\ i = 2
    /\ C1_ValidDense(model[1]) /\ model[1].activation = "relu"
    /\ C1_ValidDense(model[2]) /\ model[2].activation = "softmax"
    /\ model[2].input_units = 1 /\ model[2].units = 1
    /\ total_flops = (2 * model[1].input_units * model[1].units + model[1].units) + 7

\* C2: a Flatten layer, whatever its shape and position, adds 0 to the
\* total and is printed in the trace as a layer with no FLOPs counted.
C2_FlattenZero ==
    [][Enumerates(LAMBDA l : l.kind = "Flatten") =>
         /\ total_flops' = total_flops
         /\ out' = Append(out, <<"Layer", i, "Flatten">>)]_vars

C2_Witness ==
    /\ i = 2
    /\ model[1].kind = "Dense" /\ total_flops > 0
    /\ model[2].kind = "Flatten" /\ model[2].input_units = 1
    /\ out[Len(out)] = <<"Layer", 1, "Flatten">>

\* C3: the total is the sum of the per-layer counts reported so far, and the
\* value returned (and printed as the total) is the sum over all reports.
C3_TotalIsSum ==
    /\ total_flops = SumFlops(Reports(out))
    /\ pc = "done" =>
         /\ ret = <<SumFlops(Reports(out))>>
         /\ out[Len(out)] = <<"Total", SumFlops(Reports(out))>>

C3_Witness ==
    /\ pc = "done"
    /\ Len(Reports(out)) = 2
    /\ Reports(out)[1].flops > 0
    /\ Reports(out)[2].flops > 0
    /\ ret = <<Reports(out)[1].flops + Reports(out)[2].flops>>

\* C4: the two models of the notebook get per-layer costs
\* [0, 156900, 20100, 2050] with total 179050 and [0, 78450, 5050, 1050]
\* with total 84550.
C4_Scenarios ==
    /\ (pc = "done" /\ model = ModelA) =>
         /\ Costs(Reports(out)) = <<0, 156900, 20100, 2050>>
         /\ ret = <<179050>>
    /\ (pc = "done" /\ model = ModelB) =>
         /\ Costs(Reports(out)) = <<0, 78450, 5050, 1050>>
         /\ ret = <<84550>>

C4_Witness ==
    /\ pc = "done"
    /\ model = ModelB
    /\ Len(Reports(out)) = 4
    /\ out[Len(out)] = <<"Total", 84550>>

\* C5 (as stated): a layer that is neither Dense nor Flatten contributes 0
\* and the per-layer reports flag it, so a report carries its index.
C5_OtherFlagged ==
    pc = "done" =>
        \A p \in 1..Len(model) :
            IsOther(model[p]) => ReportsOf(p - 1) # {}

\* C5 (amended): a layer that is neither Dense nor Flatten adds 0 to the
\* total and prints nothing: the trace is left as it was, with no flag.
C5_OtherSilent ==
    [][Enumerates(IsOther) =>
         /\ total_flops' = total_flops
         /\ out' = out]_vars

C5_Witness ==
    /\ pc = "done"
    /\ model = ModelC
    /\ Len(Reports(out)) = 3
    /\ ReportsOf(2) = {}
    /\ ret = <<78400 + 210>>

\* C6 (as stated): a Dense layer with a size of 0 is rejected before any
\* arithmetic, so its report shows no computed flops line.
C6_ZeroSize(layer) ==
    layer.kind = "Dense" /\ (layer.input_units <= 0 \/ layer.units <= 0)

C6_InvalidRejected ==
    \A p \in Seen :
        C6_ZeroSize(model[p]) =>
            \A r \in ReportsOf(p - 1) :
                \A k \in 1..Len(r.notes) : r.notes[k] # "units"

\* C6 (amended): a Dense layer with a size of 0 is costed by the same
\* formula and reported like any other Dense layer, with no mark: the
\* product term is 0, its flops line shows 0, and the total grows by the
\* activation cost alone (b for ReLU, 5b for Softmax, else 0).
C6_ZeroSizeCosted ==
    [][Enumerates(C6_ZeroSize) =>
         LET a == model[i + 1].input_units
             b == model[i + 1].units
             act == model[i + 1].activation
             extra == CASE act = "relu" -> b
                        [] act = "softmax" -> 5 * b
                        [] OTHER -> 0
         IN  /\ total_flops' = total_flops + extra
             /\ out' = out \o << <<"Layer", i, "Dense">>, <<"units", a, b, 0>> >>
                           \o (CASE act = "relu" -> << <<"ReLU", extra>> >>
                                 [] act = "softmax" -> << <<"Softmax", extra>> >>
                                 [] OTHER -> <<>>)]_vars

C6_Witness ==
    /\ i = 2
    /\ model[1] = Layer("Dense", 0, 1, "softmax")
    /\ model[2] = Layer("Dense", 1, 0, "relu")
    /\ total_flops = 5
    /\ Costs(Reports(out)) = <<5, 0>>

\* C7 (as stated): there is exactly one report per input layer, so the
\* report list is as long as the input sequence.
C7_OneReportEach ==
    pc = "done" => Len(Reports(out)) = Len(model)

\* C7 (amended): there is exactly one report for each Flatten or Dense layer
\* (a Dense layer of size 0 included) and none for a layer of another kind,
\* so the report list is as long as the input less its other-kind layers.
C7_OneReportPerHandled ==
    /\ \A p \in Seen :
           Cardinality({k \in 1..Len(Reports(out)) : Reports(out)[k].index = p - 1})
               = (IF IsOther(model[p]) THEN 0 ELSE 1)
    /\ Len(Reports(out)) = Cardinality({p \in Seen : ~IsOther(model[p])})

C7_Witness ==
    /\ pc = "done"
    /\ Len(model) = 2
    /\ IsOther(model[1])
    /\ model[2].kind = "Flatten"
    /\ Len(Reports(out)) = 1

\* C8: a layer of unknown kind never aborts the call: every later layer is
\* enumerated, and the total returned is the total of the same sequence
\* with that layer removed.
C8_OtherSkipped ==
    pc = "done" =>
        /\ i = Len(model)
        /\ \A p \in 1..Len(model) :
               IsOther(model[p]) =>
                   /\ ret = <<FlopsTotal(RemoveAt(model, p))>>
                   /\ \A q \in (p + 1)..Len(model) :
                          ~IsOther(model[q]) => ReportsOf(q - 1) # {}

C8_Witness ==
    /\ pc = "done"
    /\ Len(model) = 2
    /\ IsOther(model[1])
    /\ model[2].kind = "Dense"
    /\ ret = <<FlopsTotal(<<model[2]>>)>>
    /\ ret[1] > 0

\* C9: reports come in input order, and the report that carries index i
\* shows the kind and the cost of the input layer at position i.
C9_OrderPreserved ==
    LET R == Reports(out)
    IN  \A k \in 1..Len(R) :
            /\ R[k].index \in 0..(i - 1)
            /\ R[k].kind = model[R[k].index + 1].kind
            /\ R[k].flops = RuleCost(model[R[k].index + 1])
            /\ k > 1 => R[k - 1].index < R[k].index

C9_Witness ==
    /\ pc = "done"
    /\ model = ModelC
    /\ [k \in 1..3 |-> Reports(out)[k].index] = <<0, 1, 3>>
    /\ [k \in 1..3 |-> Reports(out)[k].kind] = <<"Flatten", "Dense", "Dense">>

\* C10 (as stated): a Dense layer with an activation other than None, ReLU
\* and Softmax costs 2ab and its report flags the unaccounted activation,
\* so the report holds a line beyond its flops line.
C10_OtherActivation(layer) ==
    layer.kind = "Dense" /\ layer.activation \notin {"linear", "relu", "softmax"}

C10_ActivationFlagged ==
    \A p \in Seen :
        C10_OtherActivation(model[p]) =>
            \A r \in ReportsOf(p - 1) :
                /\ r.flops = 2 * model[p].input_units * model[p].units
                /\ Len(r.notes) > 1

\* C10 (amended): a Dense layer with an activation other than None, ReLU
\* and Softmax costs 2ab and its report holds the flops line alone, as for
\* activation None: nothing in the trace tells that an activation was
\* left out.
C10_ActivationSilent ==
    \A p \in Seen :
        C10_OtherActivation(model[p]) =>
            /\ ReportsOf(p - 1) # {}
            /\ \A r \in ReportsOf(p - 1) :
                   /\ r.flops = 2 * model[p].input_units * model[p].units
                   /\ r.notes = <<"units">>

C10_Witness ==
    /\ i = 2
    /\ model[1] = Layer("Dense", 1, 1, "sigmoid")
    /\ model[2] = Layer("Dense", 1, 1, "linear")
    /\ total_flops = 4
    /\ Reports(out)[1].notes = Reports(out)[2].notes

\* C11: the empty layer sequence is not an error: the call returns total 0
\* and its trace holds no per-layer report (the total line alone is printed).
C11_EmptyModel ==
    (pc = "done" /\ model = <<>>) =>
        /\ ret = <<0>>
        /\ Reports(out) = <<>>
        /\ out = << <<"Total", 0>> >>

C11_Witness ==
    /\ pc = "done"
    /\ model = <<>>
    /\ i = 0
    /\ ret = <<0>>
    /\ Len(out) = 1

\* C12: two calls on the same input, with any other calls between them,
\* print the same per-layer reports and return the same total; the running
\* total is 0 at the start of every call.
C12_SameInputSameResult ==
    /\ \A j, k \in 1..Len(calls) :
           calls[j].model = calls[k].model =>
               /\ calls[j].out = calls[k].out
               /\ Reports(calls[j].out) = Reports(calls[k].out)
               /\ calls[j].ret = calls[k].ret
    /\ (pc = "loop" /\ i = 0) => total_flops = 0

C12_Witness ==
    /\ Len(calls) = 3
    /\ calls[1].model = ModelA
    /\ calls[2].model = ModelC
    /\ calls[3].model = ModelA
    /\ calls[2].ret = <<78610>>
    /\ calls[3].ret = <<179050>>

\* The lines call t has printed so far, by the fold.
PrintedBy(t) ==
    LoopLines(SubSeq(th[t].model, 1, th[t].i))
        \o (IF th[t].pc = "done"
            THEN << <<"Total", FlopsTotal(th[t].model)>> >>
            ELSE <<>>)

\* s holds the lines of a and the lines of b, each in its own order.
RECURSIVE IsMerge(_, _, _)
IsMerge(s, a, b) ==
    IF s = <<>> THEN a = <<>> /\ b = <<>>
    ELSE \/ a # <<>> /\ Head(a) = Head(s) /\ IsMerge(Tail(s), Tail(a), b)
         \/ b # <<>> /\ Head(b) = Head(s) /\ IsMerge(Tail(s), a, Tail(b))

AllDone == \A t \in Threads : th[t].pc = "done"

\* A call that runs alone prints and returns what the folds give.
AloneIsFold ==
    pc = "done" => (out = FlopsTrace(model) /\ ret = <<FlopsTotal(model)>>)

\* C13 (as stated): with the per-layer steps of two calls interleaved, each
\* call's total and its ordered trace are what they are when the call runs
\* alone, so the output holds the whole trace of one call and the whole
\* trace of the other, and no call's lines stand among the other's.
C13_Isolated ==
    AllDone =>
        /\ \A t \in Threads : th[t].ret = <<FlopsTotal(th[t].model)>>
        /\ \/ stdout = FlopsTrace(th[1].model) \o FlopsTrace(th[2].model)
           \/ stdout = FlopsTrace(th[2].model) \o FlopsTrace(th[1].model)

\* C13 (amended): each call's running total and returned total are what
\* they are when the call runs alone, and each call prints the lines it
\* prints alone, in the same order; the lines of both calls go to the one
\* output, which holds them merged in the order the steps were taken.
C13_TotalsIsolatedOutputMerged ==
    /\ \A t \in Threads :
           /\ th[t].total_flops = FlopsTotal(SubSeq(th[t].model, 1, th[t].i))
           /\ th[t].pc = "done" => th[t].ret = <<FlopsTotal(th[t].model)>>
           /\ th[t].pc = "loop" => th[t].ret = <<>>
    /\ IsMerge(stdout, PrintedBy(1), PrintedBy(2))

C13_Witness ==
    /\ AllDone
    /\ th[1].model = ModelA
    /\ th[2].model = ModelC
    /\ th[1].ret = <<179050>>
    /\ th[2].ret = <<78610>>
    /\ SubSeq(stdout, 1, 4) =
           << <<"Layer", 0, "Flatten">>, <<"Layer", 0, "Flatten">>,
              <<"Layer", 1, "Dense">>, <<"units", 784, 50, 78400>> >>
    /\ stdout[Len(stdout)] = <<"Total", 179050>>

====
